---- MODULE Spec2Model ----
(***************************************************************************)
(* Model of the species-occurrence analysis of search_species:            *)
(*   - search_gbif_with_retries and buscar_com_paginacao                  *)
(*     (src/utils/helpers.py),                                             *)
(*   - the two implementations of analisar_ocorrencia_especies            *)
(*     (src/app.py and src/pages/1_Analisar_Minhas_Especies.py),          *)
(*   - get_plant_traits and get_categoria_flora_brasil                    *)
(*     (src/utils/helpers.py).                                             *)
(*                                                                         *)
(* Coordinates are integers in millidegrees (1000 = 1 degree).  The       *)
(* area is a list of axis-aligned rectangular features; occurrence        *)
(* points are taken from a set on which every distance to the area is a   *)
(* whole number of millidegrees, so that distances, the conversion to     *)
(* kilometres (111.32 km per degree: 11132/100000 km per millidegree) and *)
(* the rounding of the score are computed exactly.                        *)
(***************************************************************************)
EXTENDS Integers, Sequences, FiniteSets, TLC

VARIABLES
    \* ---- search_gbif_with_retries (helpers.py:14-32) ----
    source,        \* the kind of run, which fixes what occ.search may answer
    max_retries,   \* parameter max_retries
    attempt,       \* next value of the loop variable of range(max_retries)
    calls,         \* number of occ.search calls of the current invocation
    sleeps,        \* the time.sleep(wait_time) calls of the invocation, in order
    warnings,      \* number of st.warning calls of the invocation
    errors,        \* number of st.error calls of the invocation
    ret,           \* return value: <<>> is None, <<r>> is the response r
    outcomes,      \* what each occ.search call of the invocation did, in order
    rpc,           \* "idle", "loop" (inside the for loop) or "returned"
    \* ---- analisar_ocorrencia_especies (app.py:33-130, pages/1:20-85) ----
    impl,          \* "app" (src/app.py) or "page1" (src/pages/1_...)
    df_especies,   \* the column scientificName of the input, in order
    gdf_area,      \* the features of the area
    distancia_maxima_relevancia_km,
    i,             \* number of iterations of the species loop completed
    resultados,    \* the list of result rows
    progress,      \* numerator of the last progress_bar.progress(.. / total)
    searched,      \* indices of the species a search was started for, in order
    dados,         \* what the search of each species gave: <<>> (failure) or <<response>>
    bpc,           \* "idle", "main" (the page, before the analysis), "loop",
                   \* "searching" (pages/1, in the search), "done" (the function
                   \* has returned), "shown" (results displayed), "stopped"
                   \* (the page gave up before the analysis) or "crashed"
    buffer,        \* "none", "ok" or "failed": the buffer geometry of the page
    df_final,      \* <<>> or <<the merged table shown and exported>>
    ultima_busca,  \* what each occ.search call of the last species search did
    \* ---- buscar_com_paginacao (helpers.py:34-79) ----
    limite_registros,
    offset,
    todos_os_resultados, \* the accumulated list, as the lengths of the pages added
    requests,      \* number of pages requested (calls of search_gbif_with_retries)
    pages,         \* length of the page each answered request returned, in order
    retorno,       \* <<>> until the function returns, then <<length returned>>
    fpc,           \* "idle", "main" (pages/2, before the fetch), "loop",
                   \* "searching", "done" (the function has returned), "traits"
                   \* (pages/2, in get_plant_traits), "shown" (pages/2 has
                   \* handled the result) or "stopped"
    area_busca,    \* "none", "ok" or "failed": the circular search area of pages/2
    search_results,\* st.session_state.search_results: <<>> is None, else <<rows>>
    desfecho,      \* the branch pages/2 took on the result: "", "nenhuma" or "resultados"
    total_calls,   \* occ.search calls made by the page requests already answered
    reino_selecionado, \* the kingdom chosen in the selectbox of pages/2
    \* ---- get_plant_traits (helpers.py:122-163) ----
    lifeform_cache,   \* st.session_state.lifeform_cache: name -> trait value
    scientific_names, \* the argument of the call in progress (or of the last call)
    names_to_fetch,   \* the names of names_to_fetch the loop has still to visit
    traits,           \* <<>> during a call, then <<the dictionary returned>>
    lookups,          \* name -> number of get_categoria_flora_brasil calls for it
    gets,             \* name -> number of requests.get calls made for it
    respostas,        \* name -> <<>> or <<what requests.get did for it>>
    consultas,        \* name -> number of get_plant_traits calls that listed it
    chamadas,         \* number of get_plant_traits calls completed
    tpc               \* "idle", "loop" (the for loop) or "montar" (lines 159-163)

retryVars == <<max_retries, attempt, calls, sleeps, warnings, errors, ret, outcomes, rpc>>

batchVars == <<impl, df_especies, gdf_area, distancia_maxima_relevancia_km,
               i, resultados, progress, searched, dados, bpc,
               buffer, df_final, ultima_busca>>

fetchVars == <<limite_registros, offset, todos_os_resultados, requests, pages,
               retorno, fpc, area_busca, search_results, desfecho, total_calls,
               reino_selecionado>>

traitVars == <<lifeform_cache, scientific_names, names_to_fetch, traits, lookups,
               gets, respostas, consultas, chamadas, tpc>>

vars == <<source, retryVars, batchVars, fetchVars, traitVars>>

----------------------------------------------------------------------------
(* Values *)

None == <<>>
Some(r) == <<r>>

\* An exception raised by occ.search, seen through the only thing the code
\* reads of it: whether str(e) contains 'Connection' / 'RemoteDisconnected'.
Exceptions == [connection : BOOLEAN, remoteDisconnected : BOOLEAN]
ConnectionError == [connection |-> TRUE, remoteDisconnected |-> FALSE]
OtherError == [connection |-> FALSE, remoteDisconnected |-> FALSE]

\* A record of a response: a point (millidegrees) or a record without
\* the coordinate keys.
Rec(lon, lat) == [coord |-> TRUE, lon |-> lon, lat |-> lat]
NoCoordRec == [coord |-> FALSE, lon |-> 0, lat |-> 0]

Response(results) == [count |-> Len(results), results |-> results]
EmptyResponse == Response(<<>>)

Ok(r) == [raised |-> FALSE, exc |-> OtherError, response |-> r]
Raise(e) == [raised |-> TRUE, exc |-> e, response |-> EmptyResponse]

----------------------------------------------------------------------------
(* Geometry: shapely / geopandas on rectangular features *)

Max2(a, b) == IF a >= b THEN a ELSE b
Min2(a, b) == IF a <= b THEN a ELSE b

Rect(x0, y0, x1, y1) == [x0 |-> x0, y0 |-> y0, x1 |-> x1, y1 |-> y1]

\* predicate='within' of one point and one feature: the point lies in the
\* interior of the polygon (a point of the boundary is not within it).
Within(p, f) ==
    f.x0 < p.lon /\ p.lon < f.x1 /\ f.y0 < p.lat /\ p.lat < f.y1

\* The integer square root, by Newton's iteration.  The next iterate y is
\* bound by a quantifier, so that it is computed once per step.
RECURSIVE ISqrtFrom(_, _)
ISqrtFrom(n, x) ==
    CHOOSE r \in { IF y >= x THEN x ELSE ISqrtFrom(n, y) :
                       y \in {(x + n \div x) \div 2} } : TRUE

ISqrt(n) == IF n = 0 THEN 0 ELSE ISqrtFrom(n, n)

\* Square of the Euclidean distance (millidegrees) of a point to a
\* rectangle, 0 inside it and on its boundary.
RectDistance2(p, f) ==
    LET dx == Max2(Max2(f.x0 - p.lon, p.lon - f.x1), 0)
        dy == Max2(Max2(f.y0 - p.lat, p.lat - f.y1), 0)
    IN  dx * dx + dy * dy

\* Square of the distance to the union of the features: that to the nearest.
RECURSIVE PoligonoDistance2From(_, _, _)
PoligonoDistance2From(p, area, k) ==
    IF k = Len(area) THEN RectDistance2(p, area[k])
    ELSE Min2(RectDistance2(p, area[k]), PoligonoDistance2From(p, area, k + 1))

\* poligono.distance(ponto), poligono = gdf_area.geometry.unary_union.
PoligonoDistance(p, area) == ISqrt(PoligonoDistance2From(p, area, 1))

\* Whether the distance of p to the area is a whole number of millidegrees.
ExactDistance(p, area) ==
    LET d2 == PoligonoDistance2From(p, area, 1)
    IN  ISqrt(d2) * ISqrt(d2) = d2

\* The points of all the records, the coordinate keys not being tested.
RECURSIVE PontosSemFiltro(_)
PontosSemFiltro(results) ==
    IF results = <<>> THEN <<>>
    ELSE <<[lon |-> Head(results).lon, lat |-> Head(results).lat]>>
             \o PontosSemFiltro(Tail(results))

\* The points built from the records that carry both coordinate keys.
RECURSIVE Pontos(_)
Pontos(results) ==
    IF results = <<>> THEN <<>>
    ELSE IF Head(results).coord
         THEN <<[lon |-> Head(results).lon, lat |-> Head(results).lat]>>
                  \o Pontos(Tail(results))
         ELSE Pontos(Tail(results))

\* The rows one point contributes to the inner join: one per feature it is
\* within.
RECURSIVE JoinRowsOf(_, _, _)
JoinRowsOf(p, area, k) ==
    IF k > Len(area) THEN <<>>
    ELSE (IF Within(p, area[k]) THEN <<p>> ELSE <<>>) \o JoinRowsOf(p, area, k + 1)

\* gpd.sjoin(gdf_ocorrencias, gdf_area, how="inner", predicate='within'):
\* the geometry column of the join, in the order of the points.
RECURSIVE SJoinWithin(_, _)
SJoinWithin(pontos, area) ==
    IF pontos = <<>> THEN <<>>
    ELSE JoinRowsOf(Head(pontos), area, 1) \o SJoinWithin(Tail(pontos), area)

\* distancias.min()
RECURSIVE DistanciaMinima(_, _)
DistanciaMinima(pontos, area) ==
    IF Len(pontos) = 1 THEN PoligonoDistance(pontos[1], area)
    ELSE Min2(PoligonoDistance(pontos[1], area), DistanciaMinima(Tail(pontos), area))

\* gdf_ocorrencias.geometry.loc[distancias.idxmin()]: the first point at the
\* minimum distance.  The code compares distances computed in binary floating
\* point; the first of several points at the same exact distance is the one
\* it finds only when their distances are also equal as floats, which
\* TiesDecidedByOrder below requires of every response the source gives.
PontoMaisProximo(pontos, area) ==
    LET m == DistanciaMinima(pontos, area)
        k == CHOOSE j \in 1..Len(pontos) :
                 /\ PoligonoDistance(pontos[j], area) = m
                 /\ \A h \in 1..(j - 1) : PoligonoDistance(pontos[h], area) # m
    IN  pontos[k]

----------------------------------------------------------------------------
(* The occurrence source: what occ.search may answer *)

UnitSquare == Rect(0, 0, 1000, 1000)

\* One square of 1 x 1 degree; the square and a feature overlapping it; the
\* square and a feature sharing an edge with it.
Areas ==
    { <<UnitSquare>>,
      <<UnitSquare, Rect(500, 0, 1500, 1000)>>,
      <<UnitSquare, Rect(1000, 0, 2000, 1000)>> }

Thresholds == {10, 100, 500}

RawPoints ==
    { Rec(750, 500), Rec(250, 500), Rec(0, 500), Rec(1000, 500), Rec(1500, 500),
      Rec(-5, 500), Rec(-400, 500), Rec(-500, 500), Rec(-900, 500),
      Rec(-300, -400), Rec(-5000, 500) }

PointRecs ==
    { p \in RawPoints :
        \A a \in Areas : ExactDistance(p, a) }

\* A coordinate that is a whole number of eighths of a degree is the same
\* number as a binary float, and so are its differences from the edges of
\* the areas above.
BinaryExact(p) == p.lon % 125 = 0 /\ p.lat % 125 = 0

\* Among the points of a response, different points at the minimum distance
\* from the area have coordinates that are exact in binary: their float
\* distances tie as well, and idxmin() returns the first of them.  (For
\* -0.4 and 1.4 against the unit square the floats differ,
\* 1.4 - 1.0 = 0.3999999999999999 < 0.4, and idxmin() follows the floats.)
TiesDecidedByOrder(results, area) ==
    LET pts == Pontos(results) IN
    \/ pts = <<>>
    \/ \A j \in 1..Len(pts), h \in 1..Len(pts) :
          ( /\ pts[j] # pts[h]
            /\ PoligonoDistance(pts[j], area) = DistanciaMinima(pts, area)
            /\ PoligonoDistance(pts[h], area) = DistanciaMinima(pts, area) )
          => BinaryExact(pts[j]) /\ BinaryExact(pts[h])

MaxRecs == 2

RECURSIVE SeqsUpTo(_, _)
SeqsUpTo(S, n) ==
    IF n = 0 THEN {<<>>}
    ELSE LET shorter == SeqsUpTo(S, n - 1)
         IN  shorter \cup {Append(q, x) : q \in shorter, x \in S}

GbifResponses ==
    { Response(q) : q \in { r \in SeqsUpTo(PointRecs \cup {NoCoordRec}, MaxRecs) :
                               \A a \in Areas : TiesDecidedByOrder(r, a) } }

Failures == {Raise(ConnectionError), Raise(OtherError)}

\* One response of each kind: nothing found, no coordinates, a point inside,
\* a point near, a point far.
BatchResponses ==
    { EmptyResponse,
      Response(<<NoCoordRec>>),
      Response(<<Rec(250, 500), NoCoordRec>>),
      Response(<<Rec(-400, 500)>>),
      Response(<<Rec(-5000, 500)>>) }

\* A page of n records of the paginated search, as the run <<n>> of its
\* records (no record: the empty list).
Page(n) == [count |-> n, results |-> IF n = 0 THEN <<>> ELSE <<n>>]

Passo == 300

PageSizes == {0, 120, Passo}

\* The outcomes of occ.search in a run, by the kind of run.
SourceOutcomes(kind) ==
    IF kind = "retry"
    THEN {Raise(e) : e \in Exceptions}
           \cup {Ok(EmptyResponse), Ok(Response(<<NoCoordRec>>))}
    ELSE IF kind = "score"
    THEN Failures \cup {Ok(r) : r \in GbifResponses}
    ELSE IF kind = "batch"
    THEN Failures \cup {Ok(r) : r \in BatchResponses}
    ELSE IF kind = "runs"
    THEN Failures \cup {Ok(EmptyResponse), Ok(Response(<<Rec(-400, 500)>>))}
    ELSE Failures \cup {Ok(Page(n)) : n \in PageSizes}

----------------------------------------------------------------------------
(* Scoring of one species: the body of the loop of                         *)
(* analisar_ocorrencia_especies after the search                           *)

\* distancia_minima_km = distancia_minima * 111.32, the distance being d
\* millidegrees: distancia_minima_km >= k.
KmGE(d, k) == d * 11132 >= k * 100000

\* round(x) of Python for the rational x = num / den >= 0: to the nearest
\* integer, a tie going to the even one.
RoundDown(num, den) == num \div den

RoundHalfEven(num, den) ==
    LET q == num \div den
        r == num % den
    IN  IF 2 * r < den THEN q
        ELSE IF 2 * r > den THEN q + 1
        ELSE IF q % 2 = 0 THEN q ELSE q + 1

\* round(9 * (1 - (distancia_minima_km / distancia_maxima_relevancia_km)))
EscoreProximo(d, thr) ==
    RoundHalfEven(9 * (thr * 100000 - d * 11132), thr * 100000)

\* round(escore) of a set of points none of which is within the area, at
\* the minimum distance d: 0 at or beyond the threshold.
EscoreFora(d, thr) == IF KmGE(d, thr) THEN 0 ELSE EscoreProximo(d, thr)

Label(tag, n) == [tag |-> tag, n |-> n]

Row(especie, label, escore, total, lon, lat, pontos) ==
    [especie |-> especie,
     ocorrencia_na_regiao |-> label,
     escore_proximidade |-> escore,
     gbif_total_records |-> total,
     longitude_ocorrencia |-> lon,
     latitude_ocorrencia |-> lat,
     pontos |-> pontos]

\* app.py: the label of an occurrence nearer than the threshold.
RotuloProximoAppSingle(d) == Label("Proxima", 0)

RotuloProximoApp(d) ==
    IF ~KmGE(d, 1) THEN Label("Muito Proxima", 0)
    ELSE IF ~KmGE(d, 50) THEN Label("Proxima", 0)
    ELSE Label("Moderadamente Proxima", 0)

\* pages/1: the label of an occurrence nearer than the threshold.
RotuloProximoPage1(d) == Label("Proxima", 0)

\* app.py: the row appended when occ.search raised.
FalhaApp(especie) ==
    Row(especie, Label("Erro na busca", 0), -1, 0, None, None, <<>>)

\* pages/1: the row appended when search_gbif_with_retries returned None.
FalhaPage1(especie) ==
    Row(especie, Label("Falha na busca", 0), -1, 0, None, None, <<>>)

\* len(ocorrencias_dentro) in the label of an occurrence inside the area.
RegistrosDentro(ocorrencias_dentro) == Len(ocorrencias_dentro)

\* app.py: the row appended for a response of occ.search.
LinhaApp(especie, dados_gbif, area, thr) ==
    LET total == dados_gbif.count
        pontos_ocorrencia == Pontos(dados_gbif.results)
        ocorrencias_dentro == SJoinWithin(pontos_ocorrencia, area)
        d == DistanciaMinima(pontos_ocorrencia, area)
        proximo == PontoMaisProximo(pontos_ocorrencia, area)
    IN  IF dados_gbif.results = <<>>
        THEN Row(especie, Label("Nao encontrado no GBIF", 0), -1, total, None, None, <<>>)
        ELSE IF pontos_ocorrencia = <<>>
        THEN Row(especie, Label("Dados insuficientes", 0), -1, total, None, None, <<>>)
        ELSE IF ocorrencias_dentro # <<>>
        THEN Row(especie, Label("Dentro da area", RegistrosDentro(ocorrencias_dentro)), 10, total,
                 Some(ocorrencias_dentro[1].lon), Some(ocorrencias_dentro[1].lat),
                 pontos_ocorrencia)
        ELSE IF KmGE(d, thr)
        THEN Row(especie, Label("Distante", 0), EscoreFora(d, thr), total,
                 Some(proximo.lon), Some(proximo.lat), pontos_ocorrencia)
        ELSE Row(especie, RotuloProximoApp(d), EscoreFora(d, thr), total,
                 Some(proximo.lon), Some(proximo.lat), pontos_ocorrencia)

\* pages/1: the row appended for a response of search_gbif_with_retries.
LinhaPage1(especie, dados_gbif, area, thr) ==
    LET total == dados_gbif.count
        pontos == Pontos(dados_gbif.results)
        ocorrencias_dentro == SJoinWithin(pontos, area)
        d == DistanciaMinima(pontos, area)
        proximo == PontoMaisProximo(pontos, area)
    IN  IF dados_gbif.results = <<>>
        THEN Row(especie, Label("Nao encontrado no GBIF", 0), -1, total, None, None, <<>>)
        ELSE IF pontos = <<>>
        THEN Row(especie, Label("Dados insuficientes", 0), -1, total, None, None, <<>>)
        ELSE IF ocorrencias_dentro # <<>>
        THEN Row(especie, Label("Dentro da area", RegistrosDentro(ocorrencias_dentro)), 10, total,
                 Some(ocorrencias_dentro[1].lon), Some(ocorrencias_dentro[1].lat), pontos)
        ELSE IF KmGE(d, thr)
        THEN Row(especie, Label("Longe", 0), EscoreFora(d, thr), total,
                 Some(proximo.lon), Some(proximo.lat), pontos)
        ELSE Row(especie, RotuloProximoPage1(d), EscoreFora(d, thr), total,
                 Some(proximo.lon), Some(proximo.lat), pontos)

----------------------------------------------------------------------------
(* search_gbif_with_retries *)

IsTransientAlways(e) == TRUE

IsTransientConnectionOnly(e) == e.connection

\* 'Connection' in str(e) or 'RemoteDisconnected' in str(e)
IsTransient(e) == e.connection \/ e.remoteDisconnected

RECURSIVE Pow2(_)
Pow2(n) == IF n = 0 THEN 1 ELSE 2 * Pow2(n - 1)

\* wait_time = 2 ** (attempt + 1)
WaitTime(a) == Pow2(a + 1)

\* Entry of the function: the locals and the per-invocation observations.
CallSearch(mr) ==
    /\ max_retries' = mr
    /\ attempt' = 0
    /\ calls' = 0
    /\ sleeps' = <<>>
    /\ warnings' = 0
    /\ errors' = 0
    /\ ret' = None
    /\ outcomes' = <<>>
    /\ rpc' = "loop"

\* for attempt in range(max_retries): the number of iterations allowed.
AttemptsAllowedOneMore(mr) == mr + 1

AttemptsAllowed(mr) == mr

\* One iteration of the for loop: the call of occ.search and its handler.
Attempt ==
    /\ rpc = "loop"
    /\ attempt < AttemptsAllowed(max_retries)
    /\ \E out \in SourceOutcomes(source) :
        /\ calls' = calls + 1
        /\ outcomes' = Append(outcomes, out)
        /\ IF ~out.raised
           THEN /\ ret' = Some(out.response)
                /\ rpc' = "returned"
                /\ UNCHANGED <<attempt, sleeps, warnings, errors>>
           ELSE IF IsTransient(out.exc)
           THEN /\ warnings' = warnings + 1
                /\ sleeps' = Append(sleeps, WaitTime(attempt))
                /\ attempt' = attempt + 1
                /\ UNCHANGED <<errors, ret, rpc>>
           ELSE /\ errors' = errors + 1
                /\ ret' = None
                /\ rpc' = "returned"
                /\ UNCHANGED <<attempt, sleeps, warnings>>
    /\ UNCHANGED <<source, traitVars, max_retries, batchVars, fetchVars>>

\* The loop ran out of attempts: the final st.error and return None.
Exhausted ==
    /\ rpc = "loop"
    /\ attempt >= AttemptsAllowed(max_retries)
    /\ errors' = errors + 1
    /\ ret' = None
    /\ rpc' = "returned"
    /\ UNCHANGED <<source, traitVars, max_retries, attempt, calls, sleeps, warnings, outcomes>>
    /\ UNCHANGED <<batchVars, fetchVars>>

\* The caller has taken the return value: the invocation is over.
RetryIdle ==
    /\ max_retries' = 0
    /\ attempt' = 0
    /\ calls' = 0
    /\ sleeps' = <<>>
    /\ warnings' = 0
    /\ errors' = 0
    /\ ret' = None
    /\ outcomes' = <<>>
    /\ rpc' = "idle"

\* A text is the list of its characters; <<>> is the empty text (and stands
\* for a missing name, which is as false as the empty one).
Inga == <<"I", "n", "g", "a">>
Edulis == <<"e", "d", "u", "l", "i", "s">>
Edulisoides == Edulis \o <<"o", "i", "d", "e", "s">>
Vera == <<"v", "e", "r", "a">>
Mart == <<"M", "a", "r", "t", ".">>
Willd == <<"W", "i", "l", "l", "d", ".">>

\* f"{a} {b}"
Texto2(a, b) == a \o <<" ">> \o b

Texto3(a, b, c) == Texto2(Texto2(a, b), c)

\* The scientific names asked for: none, a genus alone, a binomial, and a
\* name with its author as GBIF gives it.
TraitNames == {<<>>, Inga, Texto2(Inga, Edulis), Texto3(Inga, Vera, Willd)}

InitTraitsIdle ==
    /\ lifeform_cache = <<>>
    /\ scientific_names = <<>>
    /\ names_to_fetch = {}
    /\ traits = <<>>
    /\ lookups = [n \in TraitNames |-> 0]
    /\ gets = [n \in TraitNames |-> 0]
    /\ respostas = [n \in TraitNames |-> None]
    /\ consultas = [n \in TraitNames |-> 0]
    /\ chamadas = 0
    /\ tpc = "idle"

InitRetryIdle ==
    /\ max_retries = 0
    /\ attempt = 0
    /\ calls = 0
    /\ sleeps = <<>>
    /\ warnings = 0
    /\ errors = 0
    /\ ret = None
    /\ outcomes = <<>>
    /\ rpc = "idle"

InitBatchIdle ==
    /\ impl = "app"
    /\ df_especies = <<>>
    /\ gdf_area = <<>>
    /\ distancia_maxima_relevancia_km = 0
    /\ i = 0
    /\ resultados = <<>>
    /\ progress = 0
    /\ searched = <<>>
    /\ dados = <<>>
    /\ bpc = "idle"
    /\ buffer = "none"
    /\ df_final = <<>>
    /\ ultima_busca = <<>>

InitFetchIdle ==
    /\ limite_registros = 0
    /\ offset = 0
    /\ todos_os_resultados = <<>>
    /\ requests = 0
    /\ pages = <<>>
    /\ retorno = <<>>
    /\ fpc = "idle"
    /\ area_busca = "none"
    /\ search_results = <<>>
    /\ desfecho = ""
    /\ total_calls = 0
    /\ reino_selecionado = "Plantas (Plantae)"

----------------------------------------------------------------------------
(* Specification of search_gbif_with_retries alone *)

MaxRetriesBound == 4

InitRetry ==
    /\ source = "retry"
    /\ max_retries \in 0..MaxRetriesBound
    /\ attempt = 0
    /\ calls = 0
    /\ sleeps = <<>>
    /\ warnings = 0
    /\ errors = 0
    /\ ret = None
    /\ outcomes = <<>>
    /\ rpc = "loop"
    /\ InitBatchIdle
    /\ InitFetchIdle
    /\ InitTraitsIdle

NextRetry == Attempt \/ Exhausted

SpecRetry == InitRetry /\ [][NextRetry]_vars

\* The failure classes the claims speak of, read off the exception itself.
ConnectionClass(out) ==
    out.raised /\ (out.exc.connection \/ out.exc.remoteDisconnected)
OtherClass(out) ==
    out.raised /\ ~out.exc.connection /\ ~out.exc.remoteDisconnected

AllButLastTransient ==
    \A j \in 1..(Len(outcomes) - 1) : ConnectionClass(outcomes[j])

\* C3: when attempts 1..k-1 fail with a connection-class error and attempt k
\* succeeds, the function returns the response of attempt k, has made exactly
\* k <= max_retries calls of occ.search and has reported no error.
C3_SuccessAfterTransients ==
    (/\ rpc = "returned"
     /\ Len(outcomes) >= 1
     /\ ~outcomes[Len(outcomes)].raised
     /\ AllButLastTransient)
    => /\ ret = Some(outcomes[Len(outcomes)].response)
       /\ ret # None
       /\ calls = Len(outcomes)
       /\ calls <= max_retries
       /\ errors = 0

C3_Witness ==
    /\ rpc = "returned"
    /\ Len(outcomes) = 3
    /\ ConnectionClass(outcomes[1])
    /\ ConnectionClass(outcomes[2])
    /\ ~outcomes[3].raised
    /\ ret = Some(outcomes[3].response)

\* C4: when every attempt fails with a connection-class error, the function
\* makes exactly max_retries calls of occ.search, reports one error and
\* returns None; it never makes more than max_retries calls.
C4_ExhaustedAfterMaxRetries ==
    /\ calls <= max_retries
    /\ (/\ rpc = "returned"
        /\ \A j \in 1..Len(outcomes) : ConnectionClass(outcomes[j]))
       => /\ calls = max_retries
          /\ Len(outcomes) = max_retries
          /\ errors = 1
          /\ ret = None

C4_Witness ==
    /\ rpc = "returned"
    /\ max_retries = 4
    /\ calls = 4
    /\ \A j \in 1..4 : ConnectionClass(outcomes[j])
    /\ errors = 1
    /\ ret = None

\* C5: a failure that is not of the connection class ends the function at
\* once: it is the last call made, the function has returned None with one
\* error reported, and the only waits are those of the earlier failures.
C5_OtherFailureNotRetried ==
    \A j \in 1..Len(outcomes) :
        OtherClass(outcomes[j])
        => /\ j = Len(outcomes)
           /\ calls = j
           /\ rpc = "returned"
           /\ ret = None
           /\ errors = 1
           /\ Len(sleeps) = j - 1

C5_Witness ==
    /\ rpc = "returned"
    /\ Len(outcomes) = 3
    /\ ConnectionClass(outcomes[1])
    /\ ConnectionClass(outcomes[2])
    /\ OtherClass(outcomes[3])
    /\ Len(sleeps) = 2

----------------------------------------------------------------------------
(* analisar_ocorrencia_especies: the loop over the species *)

DefaultMaxRetries == 4

Total == Len(df_especies)

\* resultados.append({... failure row ...}) of the failure branch.
RegistrarFalhaSkip(res, linha) == res

RegistrarFalha(res, linha) == Append(res, linha)

\* continue: the loop goes on with the next species.
DepoisDaFalhaBreak == "done"

DepoisDaFalha == "loop"

\* app.py:60-127: one iteration, the search being one call of occ.search
\* inside try/except Exception.
IterationApp ==
    /\ impl = "app"
    /\ bpc = "loop"
    /\ i < Total
    /\ searched' = Append(searched, i + 1)
    /\ \E out \in SourceOutcomes(source) :
          /\ IF out.raised
             THEN /\ resultados' = RegistrarFalha(resultados, FalhaApp(df_especies[i + 1]))
                  /\ dados' = Append(dados, None)
                  /\ bpc' = DepoisDaFalha
                  /\ UNCHANGED progress
             ELSE /\ resultados' = Append(resultados,
                         LinhaApp(df_especies[i + 1], out.response, gdf_area,
                                  distancia_maxima_relevancia_km))
                  /\ dados' = Append(dados, Some(out.response))
                  /\ bpc' = "loop"
                  /\ progress' = i + 1
          /\ ultima_busca' = <<out>>
    /\ i' = i + 1
    /\ UNCHANGED <<impl, df_especies, gdf_area, distancia_maxima_relevancia_km,
                   buffer, df_final>>
    /\ UNCHANGED <<source, traitVars, retryVars, fetchVars>>

\* pages/1:32-39: the start of an iteration, up to the call of
\* search_gbif_with_retries(search_params).
IterationPage1Search ==
    /\ impl = "page1"
    /\ bpc = "loop"
    /\ i < Total
    /\ searched' = Append(searched, i + 1)
    /\ CallSearch(DefaultMaxRetries)
    /\ bpc' = "searching"
    /\ UNCHANGED <<impl, df_especies, gdf_area, distancia_maxima_relevancia_km,
                   i, resultados, progress, dados, buffer, df_final, ultima_busca>>
    /\ UNCHANGED <<source, traitVars, fetchVars>>

\* pages/1:41-82: the rest of the iteration, once the search has returned.
IterationPage1Row ==
    /\ impl = "page1"
    /\ bpc = "searching"
    /\ rpc = "returned"
    /\ IF ret = None
       THEN /\ resultados' = RegistrarFalha(resultados, FalhaPage1(df_especies[i + 1]))
            /\ bpc' = DepoisDaFalha
            /\ UNCHANGED progress
       ELSE /\ resultados' = Append(resultados,
                   LinhaPage1(df_especies[i + 1], ret[1], gdf_area,
                              distancia_maxima_relevancia_km))
            /\ bpc' = "loop"
            /\ progress' = i + 1
    /\ dados' = Append(dados, ret)
    /\ ultima_busca' = outcomes
    /\ i' = i + 1
    /\ RetryIdle
    /\ UNCHANGED <<impl, df_especies, gdf_area, distancia_maxima_relevancia_km, searched,
                   buffer, df_final>>
    /\ UNCHANGED <<source, traitVars, fetchVars>>

\* The loop is over: return pd.DataFrame(resultados).
AnaliseConcluida ==
    /\ bpc = "loop"
    /\ i >= Total
    /\ bpc' = "done"
    /\ UNCHANGED <<impl, df_especies, gdf_area, distancia_maxima_relevancia_km,
                   i, resultados, progress, searched, dados, buffer, df_final,
                   ultima_busca>>
    /\ UNCHANGED <<source, traitVars, retryVars, fetchVars>>

\* app.py:237-279: main, from the button to the analysis.  The buffer of the
\* area is computed first; if that raises, st.error and st.stop() end the run.
EntradaApp ==
    /\ impl = "app"
    /\ bpc = "main"
    /\ \E falha \in BOOLEAN :
          IF falha
          THEN /\ buffer' = "failed"
               /\ bpc' = "stopped"
          ELSE /\ buffer' = "ok"
               /\ bpc' = "loop"
    /\ UNCHANGED <<impl, df_especies, gdf_area, distancia_maxima_relevancia_km,
                   i, resultados, progress, searched, dados, df_final, ultima_busca>>
    /\ UNCHANGED <<source, traitVars, retryVars, fetchVars>>

\* pages/1:103-123: from the button to the analysis.  No buffer is computed
\* here; an empty species table is refused.
EntradaPage1 ==
    /\ impl = "page1"
    /\ bpc = "main"
    /\ bpc' = IF df_especies = <<>> THEN "stopped" ELSE "loop"
    /\ UNCHANGED <<impl, df_especies, gdf_area, distancia_maxima_relevancia_km,
                   i, resultados, progress, searched, dados, buffer, df_final,
                   ultima_busca>>
    /\ UNCHANGED <<source, traitVars, retryVars, fetchVars>>

\* df_resultados.drop(columns=['pontos'])
SemPontos(row) ==
    [especie |-> row.especie,
     ocorrencia_na_regiao |-> row.ocorrencia_na_regiao,
     escore_proximidade |-> row.escore_proximidade,
     gbif_total_records |-> row.gbif_total_records,
     longitude_ocorrencia |-> row.longitude_ocorrencia,
     latitude_ocorrencia |-> row.latitude_ocorrencia]

\* The rows a left join gives for one row of the left table: one per
\* matching row of the right table, or one without a right part.
LinhasDe(nome, right) ==
    LET casam == SelectSeq(right, LAMBDA r : r.especie = nome) IN
    IF casam = <<>>
    THEN <<[scientificName |-> nome, resultado |-> None]>>
    ELSE [k \in 1..Len(casam) |->
              [scientificName |-> nome, resultado |-> Some(SemPontos(casam[k]))]]

\* pd.merge(df_especies, df_resultados.drop(columns=['pontos']),
\*          left_on='scientificName', right_on='especie', how='left')
RECURSIVE Merge(_, _)
Merge(left, right) ==
    IF left = <<>> THEN <<>>
    ELSE LinhasDe(Head(left), right) \o Merge(Tail(left), right)

\* app.py:284-339: the results section.  A result frame without rows has no
\* column 'pontos' to drop, which raises KeyError.
ExibirApp ==
    /\ impl = "app"
    /\ bpc = "done"
    /\ IF resultados = <<>>
       THEN /\ bpc' = "crashed"
            /\ UNCHANGED df_final
       ELSE /\ bpc' = "shown"
            /\ df_final' = Some(Merge(df_especies, resultados))
    /\ UNCHANGED <<impl, df_especies, gdf_area, distancia_maxima_relevancia_km,
                   i, resultados, progress, searched, dados, buffer, ultima_busca>>
    /\ UNCHANGED <<source, traitVars, retryVars, fetchVars>>

\* pages/1:130-166: the results section.  The buffer drawn on the map is
\* computed here, inside try/except: a failure is a warning only.
ExibirPage1 ==
    /\ impl = "page1"
    /\ bpc = "done"
    /\ IF resultados = <<>>
       THEN /\ bpc' = "crashed"
            /\ UNCHANGED <<df_final, buffer>>
       ELSE /\ bpc' = "shown"
            /\ df_final' = Some(Merge(df_especies, resultados))
            /\ \E falha \in BOOLEAN : buffer' = IF falha THEN "failed" ELSE "ok"
    /\ UNCHANGED <<impl, df_especies, gdf_area, distancia_maxima_relevancia_km,
                   i, resultados, progress, searched, dados, ultima_busca>>
    /\ UNCHANGED <<source, traitVars, retryVars, fetchVars>>

NextBatch ==
    \/ EntradaApp
    \/ EntradaPage1
    \/ ExibirApp
    \/ ExibirPage1
    \/ IterationApp
    \/ IterationPage1Search
    \/ Attempt
    \/ Exhausted
    \/ IterationPage1Row
    \/ AnaliseConcluida

----------------------------------------------------------------------------
(* Specifications of the analysis *)

\* One species, every response.
InitScore ==
    /\ source = "score"
    /\ impl \in {"app", "page1"}
    /\ df_especies = <<"Aa">>
    /\ gdf_area \in Areas
    /\ distancia_maxima_relevancia_km \in Thresholds
    /\ i = 0
    /\ resultados = <<>>
    /\ progress = 0
    /\ searched = <<>>
    /\ dados = <<>>
    /\ bpc = "main"
    /\ buffer = "none"
    /\ df_final = <<>>
    /\ ultima_busca = <<>>
    /\ InitRetryIdle
    /\ InitFetchIdle
    /\ InitTraitsIdle

SpecScore == InitScore /\ [][NextBatch]_vars

MaxSpecies == 3

Names == {"Aa", "Bb"}

\* Every list of species, one response of each kind.
InitBatch ==
    /\ source = "batch"
    /\ impl \in {"app", "page1"}
    /\ df_especies \in SeqsUpTo(Names, MaxSpecies)
    /\ gdf_area = <<UnitSquare>>
    /\ distancia_maxima_relevancia_km = 100
    /\ i = 0
    /\ resultados = <<>>
    /\ progress = 0
    /\ searched = <<>>
    /\ dados = <<>>
    /\ bpc = "main"
    /\ buffer = "none"
    /\ df_final = <<>>
    /\ ultima_busca = <<>>
    /\ InitRetryIdle
    /\ InitFetchIdle
    /\ InitTraitsIdle

SpecBatch == InitBatch /\ [][NextBatch]_vars

----------------------------------------------------------------------------
(* buscar_com_paginacao *)

\* len() of a list kept as the runs of its records.
RECURSIVE Comprimento(_)
Comprimento(runs) ==
    IF runs = <<>> THEN 0 ELSE Head(runs) + Comprimento(Tail(runs))

\* len(todos_os_resultados[:limite_registros])
FatiaSemLimite(runs, limite) == Comprimento(runs)

Fatia(runs, limite) == Min2(Comprimento(runs), limite)

\* The loop test taken as offset <= limite_registros.
ContinuaInclusive(off, limite) == off <= limite

\* while offset < limite_registros
Continua(off, limite) == off < limite

\* helpers.py:52-63: the loop test and the request of the page at offset.
PaginaPedir ==
    /\ fpc = "loop"
    /\ Continua(offset, limite_registros)
    /\ CallSearch(DefaultMaxRetries)
    /\ requests' = requests + 1
    /\ fpc' = "searching"
    /\ UNCHANGED <<limite_registros, offset, todos_os_resultados, pages, retorno,
                   area_busca, search_results, desfecho, total_calls, reino_selecionado>>
    /\ UNCHANGED <<source, traitVars, batchVars>>

\* helpers.py:65-76, and 78-79 after a break: the page has been answered.
PaginaReceber ==
    /\ fpc = "searching"
    /\ rpc = "returned"
    /\ IF ret = None
       THEN /\ fpc' = "done"
            /\ retorno' = <<Fatia(todos_os_resultados, limite_registros)>>
            /\ UNCHANGED <<offset, todos_os_resultados, pages>>
       ELSE IF ret[1].results = <<>>
       THEN /\ fpc' = "done"
            /\ retorno' = <<Fatia(todos_os_resultados, limite_registros)>>
            /\ pages' = Append(pages, 0)
            /\ UNCHANGED <<offset, todos_os_resultados>>
       ELSE /\ todos_os_resultados' = todos_os_resultados \o ret[1].results
            /\ offset' = offset + Passo
            /\ pages' = Append(pages, Comprimento(ret[1].results))
            /\ fpc' = "loop"
            /\ UNCHANGED retorno
    /\ RetryIdle
    /\ total_calls' = total_calls + calls
    /\ UNCHANGED <<limite_registros, requests, area_busca, search_results, desfecho,
                   reino_selecionado>>
    /\ UNCHANGED <<source, traitVars, batchVars>>

\* helpers.py:52 and 78-79: the loop test fails, the function returns.
BuscaFinalizada ==
    /\ fpc = "loop"
    /\ ~Continua(offset, limite_registros)
    /\ fpc' = "done"
    /\ retorno' = <<Fatia(todos_os_resultados, limite_registros)>>
    /\ UNCHANGED <<limite_registros, offset, todos_os_resultados, requests, pages,
                   area_busca, search_results, desfecho, total_calls, reino_selecionado>>
    /\ UNCHANGED <<source, traitVars, retryVars, batchVars>>

\* pages/2:56-90 and helpers.py:38-50: from the button to the first loop
\* test.  The circular search area is built first; if that raises, st.error
\* and st.stop() end the run.  Inside buscar_com_paginacao, a geometry that
\* cannot be written as WKT makes the function return [] at once.
EntradaPage2 ==
    /\ fpc = "main"
    /\ \E falha_buffer \in BOOLEAN, falha_wkt \in BOOLEAN :
          IF falha_buffer
          THEN /\ ~falha_wkt
               /\ area_busca' = "failed"
               /\ fpc' = "stopped"
               /\ UNCHANGED retorno
          ELSE /\ area_busca' = "ok"
               /\ IF falha_wkt
                  THEN /\ fpc' = "done"
                       /\ retorno' = <<0>>
                  ELSE /\ fpc' = "loop"
                       /\ UNCHANGED retorno
    /\ UNCHANGED <<limite_registros, offset, todos_os_resultados, requests, pages,
                   search_results, desfecho, total_calls, reino_selecionado>>
    /\ UNCHANGED <<source, traitVars, retryVars, batchVars>>

----------------------------------------------------------------------------
(* get_categoria_flora_brasil and get_plant_traits *)

NaoCategorizado == "Nao categorizado"
ErroAoBuscar == "Erro ao buscar dados"

\* ", ".join(lifeForm) for the life-form lists of the modelled answers.
Join(lifeForm) ==
    CASE lifeForm = <<"Arvore">> -> "Arvore"
      [] lifeForm = <<"Arvore", "Arbusto">> -> "Arvore, Arbusto"

\* An item of the JSON list: taxon is <<>> (no 'taxon' key) or <<the text of
\* scientificname>>; profile is "none" (no 'specie_profile'), "dict" or
\* "list" (a value without .get); lifeForm is the list under 'lifeForm'.
Item(taxon, profile, lifeForm) ==
    [taxon |-> taxon, profile |-> profile, lifeForm |-> lifeForm]

\* What requests.get does: it raises ("connection"), or answers with a
\* status code and, for 200, the decoded JSON list.
HttpAnswer(erro, status, data) == [erro |-> erro, status |-> status, data |-> data]

ConnectionFailure == HttpAnswer("connection", 0, <<>>)
NotFound404 == HttpAnswer("none", 404, <<>>)
ServerError500 == HttpAnswer("none", 500, <<>>)
Json(data) == HttpAnswer("none", 200, data)

FloraAnswers ==
    { ConnectionFailure, NotFound404, ServerError500,
      Json(<<>>),
      Json(<<Item(Some(Texto3(Inga, Edulis, Mart)), "dict", <<"Arvore">>)>>),
      Json(<<Item(None, "none", <<>>),
             Item(Some(Texto3(Inga, Vera, Willd)), "dict", <<"Arvore", "Arbusto">>),
             Item(Some(Texto3(Inga, Edulis, Mart)), "dict", <<>>)>>),
      Json(<<Item(Some(Texto3(Inga, Edulisoides, Mart)), "dict", <<"Arvore", "Arbusto">>),
             Item(Some(Texto3(Inga, Edulis, Mart)), "dict", <<"Arvore">>)>>),
      Json(<<Item(Some(Texto3(Inga, Edulis, Mart)), "none", <<>>),
             Item(Some(Texto3(Inga, Vera, Willd)), "list", <<>>)>>) }

\* The positions of the spaces of a text.
Espacos(texto) == {k \in 1..Len(texto) : texto[k] = " "}

\* len(nome_cientifico.split(' '))
NumeroDePartes(texto) == Cardinality(Espacos(texto)) + 1

\* f"{partes_nome[0]} {partes_nome[1]}": the text up to its second space.
NomeParaComparar(texto) ==
    LET depois == {k \in Espacos(texto) : \E h \in Espacos(texto) : h < k}
    IN  IF depois = {} THEN texto
        ELSE SubSeq(texto, 1, (CHOOSE k \in depois : \A h \in depois : k <= h) - 1)

\* api_full_name.startswith(nome_para_comparar)
StartsWith(api_full_name, prefixo) ==
    /\ Len(api_full_name) >= Len(prefixo)
    /\ SubSeq(api_full_name, 1, Len(prefixo)) = prefixo

\* A function result: a value returned (<<>> is None) or an exception that
\* leaves the function.
Returned(v) == [raised |-> FALSE, value |-> v]
Propagated == [raised |-> TRUE, value |-> None]

\* The for loop over the items (lines 103-114): the first item whose name
\* matches decides.
RECURSIVE ProcurarItem(_, _)
ProcurarItem(data, nome) ==
    IF data = <<>> THEN Returned(None)
    ELSE LET item == Head(data) IN
         IF /\ item.taxon # None
            /\ item.taxon[1] # <<>>
            /\ StartsWith(item.taxon[1], NomeParaComparar(nome))
         THEN IF item.profile = "list" THEN Propagated
              ELSE IF item.profile = "dict" /\ item.lifeForm # <<>>
                   THEN Returned(Some(Join(item.lifeForm)))
                   ELSE Returned(None)
         ELSE ProcurarItem(Tail(data), nome)

\* Does get_categoria_flora_brasil reach requests.get for this name?
FazRequisicao(nome_cientifico) == NumeroDePartes(nome_cientifico) >= 2

\* get_categoria_flora_brasil: a RequestException (connection failure, or
\* the HTTPError of raise_for_status) is caught and None is returned; any
\* other exception leaves the function.
get_categoria_flora_brasil(nome_cientifico, answer) ==
    IF ~FazRequisicao(nome_cientifico) THEN Returned(None)
    ELSE IF answer.erro # "none" THEN Returned(None)
    ELSE IF answer.status = 404 THEN Returned(None)
    ELSE IF answer.status # 200 THEN Returned(None)
    ELSE ProcurarItem(answer.data, nome_cientifico)

\* Lines 145-148: what the loop stores for a name.
ValorParaCache(r) ==
    IF r.raised THEN ErroAoBuscar
    ELSE IF r.value # None THEN r.value[1] ELSE NaoCategorizado

Elementos(seq) == {seq[k] : k \in 1..Len(seq)}

\* names_to_fetch built without looking at the cache.
NamesToFetchSemCache(names, cache) ==
    {name \in Elementos(names) : name # <<>>}

\* Line 134: the distinct non-empty names that are not in the cache.
NamesToFetch(names, cache) ==
    {name \in Elementos(names) : name # <<>> /\ name \notin DOMAIN cache}

MaxNames == 2
MaxCalls == 2

\* Entry of get_plant_traits, up to the creation of the progress bar
\* (lines 128-141); a progress bar that cannot be created (barra false)
\* leaves the try block at once (line 155).
CallTraits(names, barra) ==
    /\ tpc = "idle"
    /\ scientific_names' = names
    /\ consultas' = [n \in TraitNames |->
                        consultas[n] + IF n \in Elementos(names) THEN 1 ELSE 0]
    /\ IF NamesToFetch(names, lifeform_cache) = {}
       THEN /\ barra
            /\ names_to_fetch' = {}
            /\ tpc' = "montar"
       ELSE IF barra
            THEN /\ names_to_fetch' = NamesToFetch(names, lifeform_cache)
                 /\ tpc' = "loop"
            ELSE /\ names_to_fetch' = {}
                 /\ tpc' = "montar"
    /\ traits' = <<>>
    /\ UNCHANGED <<lifeform_cache, lookups, gets, respostas, chamadas>>

\* A call of get_plant_traits made in the session, with any list of names.
TraitsBegin ==
    /\ source = "traits"
    /\ chamadas < MaxCalls
    /\ \E names \in SeqsUpTo(TraitNames, MaxNames), barra \in BOOLEAN :
          CallTraits(names, barra)
    /\ UNCHANGED <<source, retryVars, batchVars, fetchVars>>

\* One iteration of the loop of lines 143-152: the lookup, the cache entry
\* and the progress update; a failing progress update ends the loop.
TraitsLookup ==
    /\ tpc = "loop"
    /\ \E name \in names_to_fetch, answer \in FloraAnswers, barra \in BOOLEAN :
          LET r == get_categoria_flora_brasil(name, answer) IN
          /\ lookups' = [lookups EXCEPT ![name] = @ + 1]
          /\ gets' = [gets EXCEPT ![name] = @ + IF FazRequisicao(name) THEN 1 ELSE 0]
          /\ respostas' = [respostas EXCEPT
                              ![name] = IF FazRequisicao(name) THEN Some(answer) ELSE @]
          /\ lifeform_cache' = (name :> ValorParaCache(r)) @@ lifeform_cache
          /\ names_to_fetch' = IF barra THEN names_to_fetch \ {name} ELSE {}
          /\ tpc' = IF barra /\ names_to_fetch \ {name} # {} THEN "loop" ELSE "montar"
    /\ UNCHANGED <<scientific_names, traits, consultas, chamadas>>
    /\ UNCHANGED <<source, retryVars, batchVars, fetchVars>>

\* Lines 159-163: the dictionary returned, read from the cache.
TraitsReturn ==
    /\ tpc = "montar"
    /\ traits' = Some([name \in Elementos(scientific_names) \ {<<>>} |->
                          IF name \in DOMAIN lifeform_cache
                          THEN lifeform_cache[name] ELSE NaoCategorizado])
    /\ chamadas' = chamadas + 1
    /\ tpc' = "idle"
    /\ UNCHANGED <<lifeform_cache, scientific_names, names_to_fetch, lookups, gets,
                   respostas, consultas>>
    /\ UNCHANGED <<source, retryVars, batchVars, fetchVars>>

NextTraits == TraitsBegin \/ TraitsLookup \/ TraitsReturn

InitTraits ==
    /\ source = "traits"
    /\ InitTraitsIdle
    /\ InitRetryIdle
    /\ InitBatchIdle
    /\ InitFetchIdle

SpecTraits == InitTraits /\ [][NextTraits]_vars

----------------------------------------------------------------------------
(* pages/2: the result of the search, and the specification of the fetch *)

\* The keys of the dictionary reinos (pages/2:43).
Reinos == {"Plantas (Plantae)", "Animais (Animalia)", "Fungos (Fungi)"}

\* df_resultados['Nome_Cientifico'].unique().tolist() for the results of a
\* search: one name (possibly missing), or two different names.
EspeciesEncontradas ==
    {<<n>> : n \in TraitNames}
      \cup {<<Texto2(Inga, Edulis), Texto3(Inga, Vera, Willd)>>}

\* pages/2:92-100: what the page does with the list returned.  An empty
\* list is answered with the warning that nothing was found.  Any other
\* list is processed; for the plant kingdom get_plant_traits is called with
\* the names found before the results are stored.
ResultadoPage2 ==
    /\ fpc = "done"
    /\ IF retorno[1] = 0
       THEN /\ desfecho' = "nenhuma"
            /\ search_results' = None
            /\ fpc' = "shown"
            /\ UNCHANGED traitVars
       ELSE IF reino_selecionado = "Plantas (Plantae)"
       THEN /\ \E names \in EspeciesEncontradas, barra \in BOOLEAN :
                  CallTraits(names, barra)
            /\ fpc' = "traits"
            /\ UNCHANGED <<search_results, desfecho>>
       ELSE /\ desfecho' = "resultados"
            /\ search_results' = Some(retorno[1])
            /\ fpc' = "shown"
            /\ UNCHANGED traitVars
    /\ UNCHANGED <<limite_registros, offset, todos_os_resultados, requests, pages,
                   retorno, area_busca, total_calls, reino_selecionado>>
    /\ UNCHANGED <<source, retryVars, batchVars>>

\* pages/2:100-110: get_plant_traits has returned; the column Forma_de_Vida
\* is filled from the dictionary and the results are stored.
ArmazenarPage2 ==
    /\ fpc = "traits"
    /\ tpc = "idle"
    /\ traits # <<>>
    /\ desfecho' = "resultados"
    /\ search_results' = Some(retorno[1])
    /\ fpc' = "shown"
    /\ UNCHANGED <<limite_registros, offset, todos_os_resultados, requests, pages,
                   retorno, area_busca, total_calls, reino_selecionado>>
    /\ UNCHANGED <<source, traitVars, retryVars, batchVars>>

NextFetch ==
    \/ EntradaPage2
    \/ PaginaPedir
    \/ Attempt
    \/ Exhausted
    \/ PaginaReceber
    \/ BuscaFinalizada
    \/ ResultadoPage2
    \/ TraitsLookup
    \/ TraitsReturn
    \/ ArmazenarPage2

MaxLimiteCentenas == 7

\* The record caps: the number_input of pages/2 goes by hundreds from 100.
Limites == {100 * k : k \in 1..MaxLimiteCentenas}

InitFetch ==
    /\ source = "fetch"
    /\ limite_registros \in Limites
    /\ offset = 0
    /\ todos_os_resultados = <<>>
    /\ requests = 0
    /\ pages = <<>>
    /\ retorno = <<>>
    /\ fpc = "main"
    /\ area_busca = "none"
    /\ search_results = <<>>
    /\ desfecho = ""
    /\ total_calls = 0
    /\ reino_selecionado \in Reinos
    /\ InitRetryIdle
    /\ InitBatchIdle
    /\ InitTraitsIdle

SpecFetch == InitFetch /\ [][NextFetch]_vars

----------------------------------------------------------------------------
(* Runs to completion: a paginated fetch or a batch analysis, the code      *)
(* being sequential and every call and sleep returning, each step that is   *)
(* enabled is eventually taken.                                             *)

\* A batch run over a list of up to MaxSpecies species, the source failing
\* either way, finding nothing, or answering one record.
InitBatchRuns ==
    /\ source = "runs"
    /\ impl \in {"app", "page1"}
    /\ df_especies \in SeqsUpTo({"Aa"}, MaxSpecies)
    /\ gdf_area = <<UnitSquare>>
    /\ distancia_maxima_relevancia_km = 100
    /\ i = 0
    /\ resultados = <<>>
    /\ progress = 0
    /\ searched = <<>>
    /\ dados = <<>>
    /\ bpc = "main"
    /\ buffer = "none"
    /\ df_final = <<>>
    /\ ultima_busca = <<>>
    /\ InitRetryIdle
    /\ InitFetchIdle
    /\ InitTraitsIdle

InitRuns == InitFetch \/ InitBatchRuns

NextRuns == NextFetch \/ NextBatch

SpecRuns == InitRuns /\ [][NextRuns]_vars /\ WF_vars(NextRuns)

\* The source answers full pages until it is exhausted: a page shorter than
\* the page size is followed by empty pages only.
FullPagesUntilExhaustion ==
    \A j \in 1..Len(pages) :
        pages[j] < 300 => \A h \in (j + 1)..Len(pages) : pages[h] = 0

\* ceil(n / 300)
CeilPages(n) == (n + 299) \div 300

\* C6: against a source that answers full pages until exhaustion, a fetch
\* capped at N requests at most ceil(N / 300) pages and returns at most N
\* records.
C6_PagesAndCap ==
    FullPagesUntilExhaustion
    => /\ requests <= CeilPages(limite_registros)
       /\ retorno # <<>> => retorno[1] <= limite_registros

C6_Witness ==
    /\ fpc = "done"
    /\ limite_registros = 400
    /\ pages = <<300, 300>>
    /\ requests = 2
    /\ retorno = <<400>>

----------------------------------------------------------------------------
(* Claims on the loop over the species *)

\* C1: the result has one row per input species, in input order: a row is
\* appended by every iteration, row k is that of species k, and the
\* returned table has as many rows as the input.
C1_OneRowPerSpeciesInOrder ==
    /\ Len(resultados) = i
    /\ \A k \in 1..Len(resultados) : resultados[k].especie = df_especies[k]
    /\ bpc \in {"done", "shown", "crashed"} => Len(resultados) = Len(df_especies)

C1_Witness ==
    /\ bpc = "done"
    /\ df_especies = <<"Bb", "Aa", "Bb">>
    /\ dados[1] = None
    /\ dados[2] = Some(Response(<<NoCoordRec>>))
    /\ resultados[3].escore_proximidade = 10
    /\ Len(resultados) = 3

FailedLabels == {Label("Erro na busca", 0), Label("Falha na busca", 0)}

\* C2: a species whose search failed has its own row, with the search-failed
\* label, score -1, no coordinate and no points, and the loop goes on: the
\* run ends only after every species has been searched, in order.
C2_FailureRowAndContinue ==
    /\ \A k \in 1..Len(dados) :
          dados[k] = None
          => /\ k <= Len(resultados)
             /\ resultados[k].especie = df_especies[k]
             /\ resultados[k].ocorrencia_na_regiao \in FailedLabels
             /\ resultados[k].escore_proximidade = -1
             /\ resultados[k].longitude_ocorrencia = None
             /\ resultados[k].latitude_ocorrencia = None
             /\ resultados[k].pontos = <<>>
    /\ \A k \in 1..Len(searched) : searched[k] = k
    /\ bpc \in {"done", "shown", "crashed"} => Len(searched) = Len(df_especies)

C2_Witness ==
    /\ bpc = "done"
    /\ Len(df_especies) = 3
    /\ dados[1] = None
    /\ dados[2] # None
    /\ dados[3] = None
    /\ searched = <<1, 2, 3>>
    /\ resultados[1].ocorrencia_na_regiao \in FailedLabels
    /\ resultados[2].escore_proximidade = 10

----------------------------------------------------------------------------
(* Claims on the scoring of one species *)

\* The records of a response that carry coordinates and lie in the interior
\* of some feature of the area.
ContainedRecs(r, area) ==
    { j \in 1..Len(r.results) :
        /\ r.results[j].coord
        /\ \E f \in 1..Len(area) :
              /\ area[f].x0 < r.results[j].lon /\ r.results[j].lon < area[f].x1
              /\ area[f].y0 < r.results[j].lat /\ r.results[j].lat < area[f].y1 }

HasPoints(r) == \E j \in 1..Len(r.results) : r.results[j].coord

\* Species k was searched successfully, has points, and none is contained.
ScoredOutside(k) ==
    /\ dados[k] # None
    /\ HasPoints(dados[k][1])
    /\ ContainedRecs(dados[k][1], gdf_area) = {}

MinDist(k) == DistanciaMinima(Pontos(dados[k][1].results), gdf_area)

\* distance d (millidegrees) at or beyond the threshold of thr km
AtOrBeyond(d, thr) == d * 11132 >= thr * 100000

\* s is the integer nearest to 9 * (1 - km(d) / thr), the even one on a tie.
IsRounded(s, d, thr) ==
    LET num == 9 * (thr * 100000 - d * 11132)
        den == thr * 100000
    IN  \/ 2 * num - den < 2 * s * den /\ 2 * s * den < 2 * num + den
        \/ s % 2 = 0 /\ (2 * s * den = 2 * num - den \/ 2 * s * den = 2 * num + den)

\* C7 (as claimed): with at least one point contained in the area, the score
\* is 10 and the label is the inside-area label carrying the number of
\* contained points.
C7_InsideScoresTenWithCount ==
    \A k \in 1..Len(dados) :
        (dados[k] # None /\ ContainedRecs(dados[k][1], gdf_area) # {})
        => /\ resultados[k].escore_proximidade = 10
           /\ resultados[k].ocorrencia_na_regiao =
                  Label("Dentro da area", Cardinality(ContainedRecs(dados[k][1], gdf_area)))

\* Distances the monotonicity of the score is probed at, around d.
Probes(d) ==
    {d + 1, d + 10, d + 100, d + 1000}
      \cup {PoligonoDistance(p, gdf_area) : p \in PointRecs}

\* C8: with no point contained and minimum distance d, the score is 0 when
\* d is at or beyond the threshold and round(9 * (1 - d / threshold))
\* otherwise, and a larger distance never gives a larger score.
C8_OutsideScore ==
    \A k \in 1..Len(dados) :
        ScoredOutside(k)
        => LET d == MinDist(k)
               thr == distancia_maxima_relevancia_km
               s == resultados[k].escore_proximidade
           IN  /\ AtOrBeyond(d, thr) => s = 0
               /\ ~AtOrBeyond(d, thr) => IsRounded(s, d, thr)
               /\ \A e \in Probes(d) :
                     /\ e >= d => EscoreFora(e, thr) <= s
                     /\ e <= d => EscoreFora(e, thr) >= s

C8_Witness ==
    /\ Len(dados) = 1
    /\ impl = "page1"
    /\ gdf_area = <<UnitSquare>>
    /\ distancia_maxima_relevancia_km = 100
    /\ dados[1] = Some(Response(<<Rec(-900, 500), Rec(-500, 500)>>))
    /\ resultados[1].escore_proximidade = 4

\* The label the claim gives to a distance d below the threshold.
BucketLabel(d) ==
    IF d * 11132 < 1 * 100000 THEN Label("Muito Proxima", 0)
    ELSE IF d * 11132 < 50 * 100000 THEN Label("Proxima", 0)
    ELSE Label("Moderadamente Proxima", 0)

\* C9 (as claimed): with no point contained and the minimum distance below
\* the threshold, the label is very-near below 1 km, near from 1 km to below
\* 50 km and moderately-near otherwise, in both implementations.
C9_LabelByDistance ==
    \A k \in 1..Len(dados) :
        (ScoredOutside(k) /\ ~AtOrBeyond(MinDist(k), distancia_maxima_relevancia_km))
        => resultados[k].ocorrencia_na_regiao = BucketLabel(MinDist(k))

\* The example: a square of 1 x 1 degree, a threshold of 100 km and a single
\* point 0.5 degree outside an edge of the square.
HalfDegreeExample ==
    /\ Len(dados) = 1
    /\ gdf_area = <<UnitSquare>>
    /\ distancia_maxima_relevancia_km = 100
    /\ dados[1] \in {Some(Response(<<Rec(-500, 500)>>)), Some(Response(<<Rec(1500, 500)>>))}

\* C10 (as claimed): the example gives score 4 and the label near.
C10_ExampleNear ==
    HalfDegreeExample
    => /\ resultados[1].escore_proximidade = 4
       /\ resultados[1].ocorrencia_na_regiao = Label("Proxima", 0)

\* C10 (amended): the example gives score 4 in both implementations; the
\* label is moderately-near in app.py (55.66 km is not below 50 km) and the
\* single near label of pages/1.
C10_ExampleModeratelyNear ==
    HalfDegreeExample
    => /\ resultados[1].escore_proximidade = 4
       /\ impl = "app" =>
             resultados[1].ocorrencia_na_regiao = Label("Moderadamente Proxima", 0)
       /\ impl = "page1" =>
             resultados[1].ocorrencia_na_regiao = Label("Proxima", 0)

C10_Witness ==
    /\ HalfDegreeExample
    /\ impl = "app"
    /\ dados[1] = Some(Response(<<Rec(1500, 500)>>))
    /\ resultados[1].escore_proximidade = 4
    /\ resultados[1].ocorrencia_na_regiao = Label("Moderadamente Proxima", 0)

\* A row that carries no score: the sentinel, no coordinate, no points.
NoScoreRow(row, tag) ==
    /\ row.ocorrencia_na_regiao = Label(tag, 0)
    /\ row.escore_proximidade = -1
    /\ row.escore_proximidade \notin 0..10
    /\ row.longitude_ocorrencia = None
    /\ row.latitude_ocorrencia = None
    /\ row.pontos = <<>>

\* C11: an empty result list gives the not-found row and a result list in
\* which no record has coordinates gives the insufficient-data row, both
\* with the sentinel -1, no coordinate and no points; a row that is scored
\* has its score in 0..10, so the sentinel is never a score.
C11_NoScoreRows ==
    \A k \in 1..Len(dados) :
        dados[k] # None
        => /\ dados[k][1].results = <<>>
                => NoScoreRow(resultados[k], "Nao encontrado no GBIF")
           /\ (dados[k][1].results # <<>> /\ ~HasPoints(dados[k][1]))
                => NoScoreRow(resultados[k], "Dados insuficientes")
           /\ HasPoints(dados[k][1])
                => resultados[k].escore_proximidade \in 0..10

C11_Witness ==
    /\ Len(dados) = 1
    /\ impl = "page1"
    /\ dados[1] = Some(Response(<<NoCoordRec, NoCoordRec>>))
    /\ NoScoreRow(resultados[1], "Dados insuficientes")

\* C12: whatever calls of get_plant_traits a session makes, a name is
\* looked up at most once (one get_categoria_flora_brasil call, hence at
\* most one request), and a call returns, for every name that is in the
\* cache, the cached value.
C12_AtMostOneLookup ==
    /\ \A n \in TraitNames :
          /\ lookups[n] <= 1
          /\ gets[n] <= lookups[n]
          /\ lookups[n] = 1 <=> n \in DOMAIN lifeform_cache
    /\ (tpc = "idle" /\ traits # <<>>)
          => \A n \in DOMAIN traits[1] :
                n \in DOMAIN lifeform_cache => traits[1][n] = lifeform_cache[n]

\* Two calls have listed the name, the second one twice, and it was looked
\* up once.
C12_Witness ==
    LET n == Texto2(Inga, Edulis) IN
    /\ tpc = "idle"
    /\ chamadas = 2
    /\ scientific_names = <<n, n>>
    /\ consultas[n] = 2
    /\ lookups[n] = 1
    /\ gets[n] = 1
    /\ traits = Some((n :> "Arvore"))

\* The request of a lookup failed: a connection failure, an HTTP error
\* status, or an answer the lookup could not process.
LookupFailed(nome, answer) ==
    \/ answer.erro # "none"
    \/ answer.status \notin {200, 404}
    \/ get_categoria_flora_brasil(nome, answer).raised

\* C13: a name whose lookup failed is cached with the error value, is
\* returned with it, and is looked up only once.
C13_FailureCachedAsError ==
    \A n \in TraitNames :
        (respostas[n] # None /\ LookupFailed(n, respostas[n][1]))
        => /\ n \in DOMAIN lifeform_cache
           /\ lifeform_cache[n] = ErroAoBuscar
           /\ lifeform_cache[n] # NaoCategorizado
           /\ lookups[n] = 1
           /\ (tpc = "idle" /\ traits # <<>> /\ n \in DOMAIN traits[1])
                 => traits[1][n] = ErroAoBuscar

\* C14: the table shown and exported has exactly as many rows as the input
\* species list.
C14_FinalTableRowCount ==
    bpc = "shown" => Len(df_final[1]) = Len(df_especies)

\* C15: a species search whose call failed with a connection-class error
\* was retried: it is declared failed only after max_retries calls, unless
\* a later call failed otherwise.
C15_EverySearchRetried ==
    (ultima_busca # <<>> /\ \A j \in 1..Len(ultima_busca) : ConnectionClass(ultima_busca[j]))
    => Len(ultima_busca) = DefaultMaxRetries

\* C19: between iterations and at the end of the loop, the progress last
\* reported is (number of queries completed) / total.
C19_ProgressAfterEachQuery ==
    bpc \in {"loop", "done", "shown"} => progress = i

\* C20: a failure to build the buffer does not stop the run before the
\* analysis.
C20_BufferFailureDoesNotAbort ==
    buffer = "failed" => bpc # "stopped"

\* C18: containment includes the boundary: when a point of the response is
\* in the closed area (at distance 0: inside a feature or on its boundary),
\* the row is the inside-area row with score 10.
C18_BoundaryInclusive ==
    \A k \in 1..Len(dados) :
        (dados[k] # None /\ HasPoints(dados[k][1]) /\ MinDist(k) = 0)
        => /\ resultados[k].escore_proximidade = 10
           /\ resultados[k].ocorrencia_na_regiao.tag = "Dentro da area"

\* No request of the fetch failed: every page requested was answered.
SemFalha == Len(pages) = requests

\* C16: a fetch in which no request failed ends only when the records
\* accumulated have reached the cap or the source has answered an empty
\* page.
C16_EndsAtCapOrEmptyPage ==
    (fpc \in {"done", "traits", "shown"} /\ SemFalha /\ requests > 0)
    => \/ Comprimento(todos_os_resultados) >= limite_registros
       \/ pages[Len(pages)] = 0

\* C17: when the fetch stopped on a failed page request, the caller's
\* outcome is a search-failed one: neither the outcome of an empty search
\* nor that of a search with results.
C17_FailedPageSurfaced ==
    (fpc = "shown" /\ ~SemFalha) => desfecho \notin {"nenhuma", "resultados"}

\* C21: the j-th wait of an invocation is 2^j seconds, and a wait is only
\* made before a retry: once the function has returned, the waits are fewer
\* than the calls made.
C21_BackoffOnlyBeforeRetry ==
    /\ \A j \in 1..Len(sleeps) : sleeps[j] = Pow2(j)
    /\ (rpc = "returned" /\ calls > 0) => Len(sleeps) < calls

\* The search calls of the fetch so far, those of the request in progress
\* included.
FetchCalls == total_calls + calls

\* The run is over: the function has returned (the page may still be in
\* get_plant_traits, or have handled the result), or the page stopped
\* before it.
RunOver ==
    \/ fpc \in {"done", "traits", "shown", "stopped"}
    \/ bpc \in {"done", "shown", "stopped", "crashed"}

\* Resource bounds of a run: a page or a species costs at most max_retries
\* search calls, the offset is 300 times the number of non-empty pages
\* received, and a fetch makes at most ceil(cap / 300) requests and
\* ceil(cap / 300) * max_retries search calls.
RunBounds ==
    /\ calls <= DefaultMaxRetries
    /\ Len(ultima_busca) <= DefaultMaxRetries
    /\ Len(searched) <= Len(df_especies)
    /\ source = "fetch"
         => /\ offset = Passo * Len(todos_os_resultados)
            /\ requests <= CeilPages(limite_registros)
            /\ FetchCalls <= CeilPages(limite_registros) * DefaultMaxRetries

\* C22: every paginated fetch and every batch run terminates, whatever the
\* source answers, within the bounds above.
C22_TerminatesWithinBounds == []RunBounds /\ <>RunOver

\* A fetch that used the whole budget: cap 700, three pages, four calls each.
C22_Witness ==
    /\ fpc = "done"
    /\ limite_registros = 700
    /\ requests = 3
    /\ total_calls = 3 * DefaultMaxRetries

====
